---- MODULE Spec2Model ----
(***************************************************************************)
(* House Price Prediction API (src/main.py): the module-level start-up     *)
(* (model load, route registration), the feature encoder and the request   *)
(* handlers health_check, predict, batch_predict and model_info.           *)
(*                                                                         *)
(* Conventions.                                                            *)
(*  - A Python str is a sequence of one-character strings, so that         *)
(*    str.lower() is computed character by character.                      *)
(*  - A float is an integer; Inf stands for float('inf') (a JSON body can  *)
(*    carry it, e.g. 1e400) and every other number used is finite.         *)
(*  - GET /test-form only returns a constant page and is not modelled.     *)
(***************************************************************************)
EXTENDS Integers, Sequences, FiniteSets, TLC

VARIABLES phase, model, loads, routes, reqs, log

vars == <<phase, model, loads, routes, reqs, log>>

(***************************************************************************)
(* Bounds                                                                  *)
(***************************************************************************)
\* longest inputs list of a /batch-predict body
MaxBatch == 2
\* most categorical fields of an encoder input that hold a non-canonical string
MaxOdd == 1
\* the connections that can each carry one request at a time
Clients == {"c1", "c2"}

(***************************************************************************)
(* Python values                                                           *)
(***************************************************************************)
None == "None"
Inf == 1000000000

UpperCase == <<"A","B","C","D","E","F","G","H","I","J","K","L","M",
               "N","O","P","Q","R","S","T","U","V","W","X","Y","Z">>
LowerCase == <<"a","b","c","d","e","f","g","h","i","j","k","l","m",
               "n","o","p","q","r","s","t","u","v","w","x","y","z">>

\* the case mapping of the cased characters
ToLower == [ch \in { UpperCase[i] : i \in DOMAIN UpperCase } |->
              LowerCase[CHOOSE i \in DOMAIN UpperCase : UpperCase[i] = ch]]

\* str.lower() on one character: cased letters map to lower case, anything
\* else (digits, space, hyphen) is kept
lower_char(ch) == IF ch \in DOMAIN ToLower THEN ToLower[ch] ELSE ch

\* str.lower()
lower(s) == [i \in DOMAIN s |-> lower_char(s[i])]

\* dict.get(key, default)
get_default_one(mapping, key, default) ==
    IF key \in DOMAIN mapping THEN mapping[key] ELSE 1
get(mapping, key, default) ==
    IF key \in DOMAIN mapping THEN mapping[key] ELSE default

(***************************************************************************)
(* String literals of the source                                           *)
(***************************************************************************)
yes == <<"y","e","s">>
no == <<"n","o">>
furnished == <<"f","u","r","n","i","s","h","e","d">>
semi_furnished == <<"s","e","m","i","-","f","u","r","n","i","s","h","e","d">>
unfurnished == <<"u","n","f","u","r","n","i","s","h","e","d">>

(***************************************************************************)
(* Feature encoding                                                        *)
(***************************************************************************)
binary_mapping == (yes :> 1) @@ (no :> 0)

furnishing_mapping == (furnished :> 2) @@ (semi_furnished :> 1) @@ (unfurnished :> 0)

\* the list `features` of encode_categorical_features
features_mainroad_raw(input_data) ==
    << input_data.area,
       input_data.bedrooms,
       input_data.bathrooms,
       input_data.stories,
       get(binary_mapping, input_data.mainroad, 0),
       get(binary_mapping, lower(input_data.guestroom), 0),
       get(binary_mapping, lower(input_data.basement), 0),
       get(binary_mapping, lower(input_data.hotwaterheating), 0),
       get(binary_mapping, lower(input_data.airconditioning), 0),
       input_data.parking,
       get(binary_mapping, lower(input_data.prefarea), 0),
       get(furnishing_mapping, lower(input_data.furnishingstatus), 0) >>
features_swapped(input_data) ==
    << input_data.area,
       input_data.bedrooms,
       input_data.bathrooms,
       input_data.stories,
       get(binary_mapping, lower(input_data.mainroad), 0),
       get(binary_mapping, lower(input_data.basement), 0),
       get(binary_mapping, lower(input_data.guestroom), 0),
       get(binary_mapping, lower(input_data.hotwaterheating), 0),
       get(binary_mapping, lower(input_data.airconditioning), 0),
       input_data.parking,
       get(binary_mapping, lower(input_data.prefarea), 0),
       get(furnishing_mapping, lower(input_data.furnishingstatus), 0) >>
features_list(input_data) ==
    << input_data.area,
       input_data.bedrooms,
       input_data.bathrooms,
       input_data.stories,
       get(binary_mapping, lower(input_data.mainroad), 0),
       get(binary_mapping, lower(input_data.guestroom), 0),
       get(binary_mapping, lower(input_data.basement), 0),
       get(binary_mapping, lower(input_data.hotwaterheating), 0),
       get(binary_mapping, lower(input_data.airconditioning), 0),
       input_data.parking,
       get(binary_mapping, lower(input_data.prefarea), 0),
       get(furnishing_mapping, lower(input_data.furnishingstatus), 0) >>

\* np.array([features]): one row
encode_categorical_features(input_data) == << features_list(input_data) >>

(***************************************************************************)
(* PredictionInput                                                         *)
(***************************************************************************)
NumFields == {"area", "bedrooms", "bathrooms", "stories", "parking"}
BinFields == {"mainroad", "guestroom", "basement", "hotwaterheating",
              "airconditioning", "prefarea"}
CatFields == BinFields \cup {"furnishingstatus"}

PredictionInput(area, bedrooms, bathrooms, stories, mainroad, guestroom, basement, hotwaterheating, airconditioning, parking, prefarea, furnishingstatus) ==
    [ area |-> area, bedrooms |-> bedrooms, bathrooms |-> bathrooms,
      stories |-> stories, mainroad |-> mainroad, guestroom |-> guestroom,
      basement |-> basement, hotwaterheating |-> hotwaterheating,
      airconditioning |-> airconditioning, parking |-> parking,
      prefarea |-> prefarea, furnishingstatus |-> furnishingstatus ]

\* PredictionOutput(prediction=p): the optional fields keep their default
PredictionOutput(p) ==
    [ prediction |-> p, confidence_score |-> None,
      prediction_interval_lower |-> None, prediction_interval_upper |-> None ]

(***************************************************************************)
(* Inputs                                                                  *)
(***************************************************************************)
\* strings a client may send that are not the canonical lower-case values
YES == <<"Y","E","S">>
No_ == <<"N","o">>
Yes_space == <<"Y","e","s"," ">>
One == <<"1">>
Empty == <<>>
FURNISHED == <<"F","U","R","N","I","S","H","E","D">>
Semi_Furnished == <<"S","e","m","i","-","F","u","r","n","i","s","h","e","d">>
Unfurnished_space == <<"U","n","f","u","r","n","i","s","h","e","d"," ">>
semi_space_furnished == <<"s","e","m","i"," ","f","u","r","n","i","s","h","e","d">>

OddBinary == {YES, No_, Yes_space, One, Empty}
OddFurnishing == {FURNISHED, Semi_Furnished, Unfurnished_space, semi_space_furnished, Empty}
OddStrings(f) == IF f = "furnishingstatus" THEN OddFurnishing ELSE OddBinary

NumericSamples ==
    { [area |-> 7420, bedrooms |-> 4, bathrooms |-> 1, stories |-> 3, parking |-> 2],
      [area |-> 1650, bedrooms |-> 3, bathrooms |-> 2, stories |-> 1, parking |-> 0] }

\* records whose categorical fields all hold a canonical value
CanonRecords ==
    { PredictionInput(n.area, n.bedrooms, n.bathrooms, n.stories,
                      b["mainroad"], b["guestroom"], b["basement"],
                      b["hotwaterheating"], b["airconditioning"], n.parking,
                      b["prefarea"], f) :
        n \in NumericSamples, b \in [BinFields -> {yes, no}],
        f \in {furnished, semi_furnished, unfurnished} }

\* replacements of one categorical field by an odd string
OddEdits == UNION { { <<f, str>> : str \in OddStrings(f) } : f \in CatFields }

RECURSIVE Edited(_, _)
Edited(r, edits) ==
    IF edits = <<>> THEN r
    ELSE Edited([r EXCEPT ![edits[1][1]] = edits[1][2]], Tail(edits))

\* the records the server's clients send
R1 == PredictionInput(7420, 4, 1, 3, yes, no, no, no, yes, 2, yes, furnished)
R2 == PredictionInput(1650, 3, 2, 1, YES, yes, Yes_space, no, no, 0, No_, Semi_Furnished)
R3 == PredictionInput(3000, 2, 1, 2, yes, One, yes, Empty, yes, 1, no, unfurnished)
RInf == PredictionInput(Inf, 4, 1, 3, yes, no, no, no, yes, 2, yes, furnished)

\* a JSON object offered as a PredictionInput: `bad` are the fields that are
\* missing from it or hold a value of the wrong type
Item(rec, bad) == [rec |-> rec, bad |-> bad]

PredictBodies == { Item(R1, {}), Item(R2, {}), Item(R3, {}), Item(RInf, {}),
                   Item(R1, {"area"}), Item(R2, {"bedrooms", "mainroad"}) }
BatchBodies == { Item(R1, {}), Item(R2, {}), Item(RInf, {}), Item(R1, {"area"}) }

RECURSIVE SeqsUpTo(_, _)
SeqsUpTo(S, n) ==
    IF n = 0 THEN { <<>> }
    ELSE LET P == SeqsUpTo(S, n - 1)
         IN  P \cup { Append(q, x) : q \in { p \in P : Len(p) = n - 1 }, x \in S }

(***************************************************************************)
(* The model artifact house_price_model.pkl                                *)
(***************************************************************************)
NoModel == [kind |-> "NoneType"]
LinearA == [kind |-> "LinearRegression", intercept |-> 100,
            coef |-> <<1, 2, 3, 5, 7, 11, 13, 17, 19, 23, 29, 31>>]
LinearB == [kind |-> "LinearRegression", intercept |-> 0,
            coef |-> <<2, 30, 20, 10, 50, 40, 60, 90, 80, 70, 25, 15>>]
\* a pickle that loads but holds no estimator
NotAnEstimator == [kind |-> "dict"]
Artifacts == {LinearA, LinearB, NotAnEstimator}

RECURSIVE Dot(_, _, _)
Dot(w, x, n) == IF n = 0 THEN 0 ELSE w[n] * x[n] + Dot(w, x, n - 1)

Returned(v) == [ok |-> TRUE, value |-> v, exc |-> ""]
Raised(msg) == [ok |-> FALSE, value |-> <<>>, exc |-> msg]

\* model.predict(X): one prediction per row, or an exception
model_predict(m, X) ==
    IF m.kind # "LinearRegression"
    THEN Raised("object has no attribute 'predict'")
    ELSE IF \E i \in DOMAIN X : \E j \in DOMAIN X[i] : X[i][j] >= Inf \/ X[i][j] <= -Inf
    THEN Raised("Input X contains infinity or a value too large for dtype('float64').")
    ELSE Returned([i \in DOMAIN X |-> m.intercept + Dot(m.coef, X[i], Len(m.coef))])

(***************************************************************************)
(* HTTP responses                                                          *)
(***************************************************************************)
NoResponse == [status |-> 0, body |-> [pending |-> TRUE]]

JSONResponse(status, body) == [status |-> status, body |-> body]

\* raise HTTPException(status_code=400, detail=str(e))
HTTPException(status_code, detail) ==
    JSONResponse(status_code, [detail |-> [type |-> "str", value |-> detail]])

\* the framework's answer to a body that does not validate against the
\* handler's parameter type: one error object per offending field
RequestValidationError(items) ==
    JSONResponse(422, [detail |-> [type |-> "list",
                                   value |-> UNION { { <<i, f>> : f \in items[i].bad } :
                                                     i \in DOMAIN items }]])

(***************************************************************************)
(* Requests: one per client connection, with the handler's local variables *)
(***************************************************************************)
Idle == [kind |-> "none", items |-> <<>>, pc |-> "idle", i |-> 1,
         features |-> <<>>, predictions |-> <<>>, resp |-> NoResponse]

Route(kind) ==
    CASE kind = "health" -> "/"
      [] kind = "predict" -> "/predict"
      [] kind = "batch" -> "/batch-predict"
      [] kind = "info" -> "/model-info"

AllRoutes == {"/", "/predict", "/batch-predict", "/model-info", "/test-form"}

\* the request bodies a client may send to each route
Bodies(kind) ==
    CASE kind = "health" -> { <<>> }
      [] kind = "info" -> { <<>> }
      [] kind = "predict" -> { <<b>> : b \in PredictBodies }
      [] kind = "batch" -> SeqsUpTo(BatchBodies, MaxBatch)

Logged(c, messages) == log \cup { <<c, m>> : m \in messages }

(***************************************************************************)
(* Start-up: the module's top-level statements                             *)
(***************************************************************************)
Init ==
    /\ phase = "boot"
    /\ model = NoModel
    /\ loads = 0
    /\ routes = {}
    /\ reqs = [c \in Clients |-> Idle]
    /\ log = {}

\* model = joblib.load("house_price_model.pkl"): the file holds one of the
\* artifacts, or cannot be read and the import fails with the exception
LoadModelOrFallBack ==
    /\ phase = "boot"
    /\ loads' = loads + 1
    /\ \/ \E a \in Artifacts : model' = a
       \/ model' = NoModel
    /\ phase' = "loaded"
    /\ UNCHANGED <<routes, reqs, log>>
LoadModel ==
    /\ phase = "boot"
    /\ loads' = loads + 1
    /\ \/ \E a \in Artifacts : model' = a /\ phase' = "loaded"
       \/ model' = model /\ phase' = "aborted"
    /\ UNCHANGED <<routes, reqs, log>>

\* app = FastAPI(...) and the @app.get / @app.post decorators
RegisterRoutes ==
    /\ phase = "loaded"
    /\ routes' = AllRoutes
    /\ phase' = "serving"
    /\ UNCHANGED <<model, loads, reqs, log>>

(***************************************************************************)
(* Request handling                                                        *)
(***************************************************************************)
\* the framework receives a request, validates its body against the handler's
\* parameter type and either calls the handler or answers the validation error
Receive400(c, kind, items) ==
    /\ phase = "serving"
    /\ Route(kind) \in routes
    /\ reqs[c].pc = "idle"
    /\ reqs' = [reqs EXCEPT ![c] =
          IF \A i \in DOMAIN items : items[i].bad = {}
          THEN [Idle EXCEPT !.kind = kind, !.items = items, !.pc = "handler"]
          ELSE [Idle EXCEPT !.kind = kind, !.items = items, !.pc = "done",
                            !.resp = HTTPException(400, "field required")]]
    /\ UNCHANGED <<phase, model, loads, routes, log>>
Receive(c, kind, items) ==
    /\ phase = "serving"
    /\ Route(kind) \in routes
    /\ reqs[c].pc = "idle"
    /\ reqs' = [reqs EXCEPT ![c] =
          IF \A i \in DOMAIN items : items[i].bad = {}
          THEN [Idle EXCEPT !.kind = kind, !.items = items, !.pc = "handler"]
          ELSE [Idle EXCEPT !.kind = kind, !.items = items, !.pc = "done",
                            !.resp = RequestValidationError(items)]]
    /\ UNCHANGED <<phase, model, loads, routes, log>>

health_check(c) ==
    /\ reqs[c].kind = "health" /\ reqs[c].pc = "handler"
    /\ log' = Logged(c, {"Health check endpoint called."})
    /\ reqs' = [reqs EXCEPT ![c].pc = "done",
                            ![c].resp = JSONResponse(200,
                                [status |-> "healthy",
                                 message |-> "House Price Prediction API is running"])]
    /\ UNCHANGED <<phase, model, loads, routes>>

model_info_payload_swapped ==
    [ model_type |-> "Linear Regression",
      problem_type |-> "regression",
      features |-> <<"area", "bedrooms", "bathrooms", "stories", "mainroad",
                     "guestroom", "basement", "hotwaterheating", "parking",
                     "airconditioning", "prefarea", "furnishingstatus">> ]
model_info_payload ==
    [ model_type |-> "Linear Regression",
      problem_type |-> "regression",
      features |-> <<"area", "bedrooms", "bathrooms", "stories", "mainroad",
                     "guestroom", "basement", "hotwaterheating", "airconditioning",
                     "parking", "prefarea", "furnishingstatus">> ]

model_info(c) ==
    /\ reqs[c].kind = "info" /\ reqs[c].pc = "handler"
    /\ reqs' = [reqs EXCEPT ![c].pc = "done",
                            ![c].resp = JSONResponse(200, model_info_payload)]
    /\ UNCHANGED <<phase, model, loads, routes, log>>

\* predict, up to `features = encode_categorical_features(input_data)` and
\* the log line that follows it
PredictEncode(c) ==
    /\ reqs[c].kind = "predict" /\ reqs[c].pc = "handler"
    /\ log' = Logged(c, {"Prediction endpoint called with input", "Encoded features"})
    /\ reqs' = [reqs EXCEPT ![c].pc = "encoded",
                            ![c].features = encode_categorical_features(reqs[c].items[1].rec)]
    /\ UNCHANGED <<phase, model, loads, routes>>

\* what the rest of predict's try block and its except clause answer
predict_uncaught(m, features) ==
    LET out == model_predict(m, features)
    IN  IF out.ok
        THEN JSONResponse(200, PredictionOutput(out.value[1]))
        ELSE JSONResponse(500, [detail |-> [type |-> "str", value |-> "Internal Server Error"]])
predict_result(m, features) ==
    LET out == model_predict(m, features)
    IN  IF out.ok
        THEN JSONResponse(200, PredictionOutput(out.value[1]))
        ELSE HTTPException(400, out.exc)

\* predict, from `prediction = model.predict(features)[0]` to the end
PredictInferSharedFeatures(c) ==
    /\ reqs[c].kind = "predict" /\ reqs[c].pc = "encoded"
    /\ \E d \in Clients :
          /\ reqs[d].features # <<>>
          /\ LET resp == predict_result(model, reqs[d].features)
             IN  /\ reqs' = [reqs EXCEPT ![c].pc = "done", ![c].resp = resp]
                 /\ log' = Logged(c, IF resp.status = 200 THEN {"Prediction made"}
                                     ELSE {"Error during prediction"})
    /\ UNCHANGED <<phase, model, loads, routes>>
PredictInfer(c) ==
    /\ reqs[c].kind = "predict" /\ reqs[c].pc = "encoded"
    /\ LET resp == predict_result(model, reqs[c].features)
       IN  /\ reqs' = [reqs EXCEPT ![c].pc = "done", ![c].resp = resp]
           /\ log' = Logged(c, IF resp.status = 200 THEN {"Prediction made"}
                               ELSE {"Error during prediction"})
    /\ UNCHANGED <<phase, model, loads, routes>>

\* batch_predict: one turn of `for input_data in batch_input.inputs`, with the
\* statements before the loop on the first turn; an exception leaves the loop
\* for the except clause
BatchIterPrepend(c) ==
    /\ reqs[c].kind = "batch" /\ reqs[c].pc \in {"handler", "loop"}
    /\ reqs[c].i <= Len(reqs[c].items)
    /\ LET input_data == reqs[c].items[reqs[c].i].rec
           features == encode_categorical_features(input_data)
           out == model_predict(model, features)
       IN  IF out.ok
           THEN /\ reqs' = [reqs EXCEPT
                     ![c].pc = "loop", ![c].i = @ + 1, ![c].features = features,
                     ![c].predictions = <<PredictionOutput(out.value[1])>> \o @]
                /\ log' = Logged(c, {"Batch prediction endpoint called with inputs"})
           ELSE /\ reqs' = [reqs EXCEPT
                     ![c].pc = "done", ![c].features = features,
                     ![c].resp = HTTPException(400, out.exc)]
                /\ log' = Logged(c, {"Batch prediction endpoint called with inputs",
                                     "Error during batch prediction"})
    /\ UNCHANGED <<phase, model, loads, routes>>
BatchIterSkipFailure(c) ==
    /\ reqs[c].kind = "batch" /\ reqs[c].pc \in {"handler", "loop"}
    /\ reqs[c].i <= Len(reqs[c].items)
    /\ LET input_data == reqs[c].items[reqs[c].i].rec
           features == encode_categorical_features(input_data)
           out == model_predict(model, features)
       IN  IF out.ok
           THEN /\ reqs' = [reqs EXCEPT
                     ![c].pc = "loop", ![c].i = @ + 1, ![c].features = features,
                     ![c].predictions = Append(@, PredictionOutput(out.value[1]))]
                /\ log' = Logged(c, {"Batch prediction endpoint called with inputs"})
           ELSE /\ reqs' = [reqs EXCEPT
                     ![c].pc = "loop", ![c].i = @ + 1, ![c].features = features]
                /\ log' = Logged(c, {"Batch prediction endpoint called with inputs",
                                     "Error during batch prediction"})
    /\ UNCHANGED <<phase, model, loads, routes>>
BatchIter(c) ==
    /\ reqs[c].kind = "batch" /\ reqs[c].pc \in {"handler", "loop"}
    /\ reqs[c].i <= Len(reqs[c].items)
    /\ LET input_data == reqs[c].items[reqs[c].i].rec
           features == encode_categorical_features(input_data)
           out == model_predict(model, features)
       IN  IF out.ok
           THEN /\ reqs' = [reqs EXCEPT
                     ![c].pc = "loop", ![c].i = @ + 1, ![c].features = features,
                     ![c].predictions = Append(@, PredictionOutput(out.value[1]))]
                /\ log' = Logged(c, {"Batch prediction endpoint called with inputs"})
           ELSE /\ reqs' = [reqs EXCEPT
                     ![c].pc = "done", ![c].features = features,
                     ![c].resp = HTTPException(400, out.exc)]
                /\ log' = Logged(c, {"Batch prediction endpoint called with inputs",
                                     "Error during batch prediction"})
    /\ UNCHANGED <<phase, model, loads, routes>>

\* batch_predict: the loop is exhausted
BatchReturn(c) ==
    /\ reqs[c].kind = "batch" /\ reqs[c].pc \in {"handler", "loop"}
    /\ reqs[c].i > Len(reqs[c].items)
    /\ log' = Logged(c, {"Batch prediction endpoint called with inputs",
                         "Batch predictions made"})
    /\ reqs' = [reqs EXCEPT ![c].pc = "done",
                            ![c].resp = JSONResponse(200, [predictions |-> reqs[c].predictions])]
    /\ UNCHANGED <<phase, model, loads, routes>>

Next ==
    \/ LoadModel
    \/ RegisterRoutes
    \/ \E c \in Clients, kind \in {"health", "predict", "batch", "info"} :
          \E items \in Bodies(kind) : Receive(c, kind, items)
    \/ \E c \in Clients : health_check(c)
    \/ \E c \in Clients : model_info(c)
    \/ \E c \in Clients : PredictEncode(c)
    \/ \E c \in Clients : PredictInfer(c)
    \/ \E c \in Clients : BatchIter(c)
    \/ \E c \in Clients : BatchReturn(c)

Spec == Init /\ [][Next]_vars

(***************************************************************************)
(* The encoder on its own: a validated /predict request at the entry of    *)
(* the handler, for each canonical record with at most MaxOdd of its       *)
(* categorical fields replaced by an odd string                            *)
(***************************************************************************)
EncInit ==
    /\ phase = "serving"
    /\ model \in {LinearA}
    /\ loads = 1
    /\ routes = AllRoutes
    /\ \E r \in CanonRecords, edits \in SeqsUpTo(OddEdits, MaxOdd) :
          reqs = [c \in Clients |->
                    IF c = "c1"
                    THEN [Idle EXCEPT !.kind = "predict",
                                      !.items = <<Item(Edited(r, edits), {})>>,
                                      !.pc = "handler"]
                    ELSE Idle]
    /\ log = {}

EncNext == \E c \in Clients : PredictEncode(c)

EncSpec == EncInit /\ [][EncNext]_vars

(***************************************************************************)
(* Definitions used to state the properties                                *)
(***************************************************************************)
\* the documented order of the feature vector
DocumentedOrder ==
    <<"area", "bedrooms", "bathrooms", "stories", "mainroad", "guestroom",
      "basement", "hotwaterheating", "airconditioning", "parking", "prefarea",
      "furnishingstatus">>

Position(f) == CHOOSE i \in DOMAIN DocumentedOrder : DocumentedOrder[i] = f

\* the requests whose handler has encoded a record, with that record
Encoded == { c \in Clients : reqs[c].kind = "predict" /\ reqs[c].pc \in {"encoded", "done"}
                              /\ reqs[c].features # <<>> }
Rec(c) == reqs[c].items[1].rec

Valid(items) == \A i \in DOMAIN items : items[i].bad = {}

\* the model call made for a record
Call(m, rec) == model_predict(m, encode_categorical_features(rec))
Fails(m, items) == \E i \in DOMAIN items : ~Call(m, items[i].rec).ok
FirstFailure(m, items) == CHOOSE i \in DOMAIN items :
    /\ ~Call(m, items[i].rec).ok
    /\ \A j \in 1..(i - 1) : Call(m, items[j].rec).ok

Done(kind) == { c \in Clients : reqs[c].kind = kind /\ reqs[c].pc = "done" }

(***************************************************************************)
(* Properties of the encoder (specification EncSpec)                       *)
(***************************************************************************)
\* C1: for every record whose categorical fields hold canonical values, the
\* encoder returns one row of 12 entries in the documented order: a numeric
\* field unchanged, a binary field 1 for "yes" and 0 for "no",
\* furnishingstatus 2, 1, 0 for furnished, semi-furnished, unfurnished; the
\* documented example record encodes to [7420, 4, 1, 3, 1, 0, 0, 0, 1, 2, 1, 2].
C1_EncodeOrderAndValues ==
    \A c \in Encoded :
        LET X == reqs[c].features
            r == Rec(c)
        IN  /\ Len(X) = 1
            /\ Len(X[1]) = 12
            /\ \A f \in NumFields : X[1][Position(f)] = r[f]
            /\ \A f \in BinFields :
                  /\ r[f] = yes => X[1][Position(f)] = 1
                  /\ r[f] = no => X[1][Position(f)] = 0
            /\ r.furnishingstatus = furnished => X[1][12] = 2
            /\ r.furnishingstatus = semi_furnished => X[1][12] = 1
            /\ r.furnishingstatus = unfurnished => X[1][12] = 0
            /\ r = R1 => X = << <<7420, 4, 1, 3, 1, 0, 0, 0, 1, 2, 1, 2>> >>

C1_Witness ==
    \E c \in Encoded :
        /\ Rec(c) = R1
        /\ reqs[c].features = << <<7420, 4, 1, 3, 1, 0, 0, 0, 1, 2, 1, 2>> >>

\* the mapping table of a categorical field and the value the claim names
\* as its equivalent for unrecognised strings
Table(f) == IF f = "furnishingstatus" THEN furnishing_mapping ELSE binary_mapping
ZeroValue(f) == IF f = "furnishingstatus" THEN unfurnished ELSE no

\* C6: a categorical field whose string, lower-cased, is no key of the
\* field's mapping table is encoded as 0, and the vector is the one the
\* record would have with "no" (furnishingstatus: "unfurnished") there.
C6_UnrecognisedIsZero ==
    \A c \in Encoded :
        \A f \in CatFields :
            lower(Rec(c)[f]) \notin DOMAIN Table(f) =>
                /\ reqs[c].features[1][Position(f)] = 0
                /\ reqs[c].features =
                       encode_categorical_features([Rec(c) EXCEPT ![f] = ZeroValue(f)])

C6_Witness ==
    \E c \in Encoded :
        /\ Rec(c).mainroad \in {Yes_space, One, Empty}
        /\ reqs[c].features[1][5] = 0

\* str.upper() and str.swapcase(), to build records that differ in case only
ToUpper == [ch \in { LowerCase[i] : i \in DOMAIN LowerCase } |->
              UpperCase[CHOOSE i \in DOMAIN LowerCase : LowerCase[i] = ch]]
upper_char(ch) == IF ch \in DOMAIN ToUpper THEN ToUpper[ch] ELSE ch
Recase(t, str) ==
    [i \in DOMAIN str |->
        CASE t = "upper" -> upper_char(str[i])
          [] t = "lower" -> lower_char(str[i])
          [] t = "swapcase" -> IF upper_char(str[i]) = str[i] THEN lower_char(str[i])
                               ELSE upper_char(str[i])
          [] t = "capitalize" -> IF i = 1 THEN upper_char(str[i]) ELSE lower_char(str[i])]
Recasings == {"upper", "lower", "swapcase", "capitalize"}

\* the records obtained from r by recasing one categorical field, or all
CaseVariants(r) ==
    { [r EXCEPT ![f] = Recase(t, r[f])] : f \in CatFields, t \in Recasings }
    \cup { [f \in DOMAIN r |-> IF f \in CatFields THEN Recase(t, r[f]) ELSE r[f]] :
           t \in Recasings }

\* C7: records that differ only in the letter case of their categorical
\* fields encode to the same vector.
C7_CaseInsensitive ==
    \A c \in Encoded :
        \A v \in CaseVariants(Rec(c)) :
            encode_categorical_features(v) = reqs[c].features

C7_Witness ==
    \E c \in Encoded :
        /\ Rec(c).furnishingstatus = Semi_Furnished
        /\ Rec(c).mainroad = yes
        /\ [Rec(c) EXCEPT !.mainroad = YES, !.furnishingstatus = semi_furnished]
               \in CaseVariants(Rec(c)) \cup UNION { CaseVariants(v) : v \in CaseVariants(Rec(c)) }
        /\ reqs[c].features[1][5] = 1
        /\ reqs[c].features[1][12] = 1

(***************************************************************************)
(* Properties of the server (specification Spec)                           *)
(***************************************************************************)
\* the fields of the bodies that fail validation
Offending(items) == UNION { { <<i, f>> : f \in items[i].bad } : i \in DOMAIN items }

\* C2 as stated: a /predict body that fails schema validation is answered
\* with status 400 and {detail: string}, as an inference failure is.
C2_ValidationIs400 ==
    \A c \in Done("predict") :
        ~Valid(reqs[c].items) =>
            /\ reqs[c].resp.status = 400
            /\ reqs[c].resp.body.detail.type = "str"

\* C2 as amended: a /predict body that fails schema validation is answered
\* before the handler runs, with status 422 and {detail: [one error object
\* per offending field]}; only an inference failure is answered with 400
\* and {detail: string}.
C2_ValidationIs422 ==
    \A c \in Done("predict") :
        /\ ~Valid(reqs[c].items) =>
              /\ reqs[c].resp.status = 422
              /\ DOMAIN reqs[c].resp.body = {"detail"}
              /\ reqs[c].resp.body.detail.type = "list"
              /\ reqs[c].resp.body.detail.value = Offending(reqs[c].items)
              /\ reqs[c].features = <<>>
        /\ reqs[c].resp.status = 400 =>
              /\ Valid(reqs[c].items)
              /\ reqs[c].resp.body.detail.type = "str"

C2_Witness ==
    \E c \in Done("predict") :
        /\ reqs[c].items = <<Item(R1, {"area"})>>
        /\ reqs[c].resp.status = 422

\* C3: a validated /predict or /batch-predict request whose model call (or
\* encoding) raises is answered with status 400 and the exception's message
\* as detail; every handled request ends with a response, none with a 5xx.
C3_FailureIs400 ==
    \A c \in Done("predict") \cup Done("batch") :
        /\ reqs[c].resp # NoResponse
        /\ reqs[c].resp.status < 500
        /\ (Valid(reqs[c].items) /\ Fails(model, reqs[c].items)) =>
              reqs[c].resp =
                 JSONResponse(400, [detail |-> [type |-> "str",
                    value |-> Call(model,
                                   reqs[c].items[FirstFailure(model, reqs[c].items)].rec).exc]])

C3_Witness ==
    /\ \E c \in Done("predict") :
          /\ reqs[c].items = <<Item(RInf, {})>>
          /\ model = LinearA
          /\ reqs[c].resp.status = 400
    /\ \E c \in Done("batch") :
          /\ reqs[c].items = <<Item(R1, {}), Item(RInf, {})>>
          /\ reqs[c].resp.status = 400

\* C4: a batch of valid records on which no model call fails is answered
\* with as many predictions as inputs, the i-th being what /predict answers
\* for the i-th record.
C4_BatchMatchesSingle ==
    \A c \in Done("batch") :
        (Valid(reqs[c].items) /\ ~Fails(model, reqs[c].items)) =>
            /\ reqs[c].resp.status = 200
            /\ DOMAIN reqs[c].resp.body = {"predictions"}
            /\ Len(reqs[c].resp.body.predictions) = Len(reqs[c].items)
            /\ \A i \in DOMAIN reqs[c].items :
                  /\ JSONResponse(200, reqs[c].resp.body.predictions[i]) =
                        predict_result(model, encode_categorical_features(reqs[c].items[i].rec))
                  /\ \A d \in Done("predict") :
                        reqs[d].items = <<reqs[c].items[i]>> =>
                            reqs[d].resp.body = reqs[c].resp.body.predictions[i]

C4_Witness ==
    /\ \E c \in Done("batch") :
          /\ reqs[c].items = <<Item(R1, {}), Item(R2, {})>>
          /\ reqs[c].resp.status = 200
          /\ Len(reqs[c].resp.body.predictions) = 2
          /\ reqs[c].resp.body.predictions[1] # reqs[c].resp.body.predictions[2]
    /\ \E d \in Done("predict") :
          /\ reqs[d].items = <<Item(R2, {})>>
          /\ reqs[d].resp.status = 200

\* C5: a batch in which a record is invalid, or a record's encode/predict
\* step fails, is answered with one error response that holds no prediction,
\* whatever came before the failing record.
C5_BatchFailFast ==
    \A c \in Done("batch") :
        (~Valid(reqs[c].items) \/ Fails(model, reqs[c].items)) =>
            /\ reqs[c].resp.status \in {400, 422}
            /\ DOMAIN reqs[c].resp.body = {"detail"}

C5_Witness ==
    \E c \in Done("batch") :
        /\ reqs[c].items = <<Item(R1, {}), Item(RInf, {})>>
        /\ model = LinearB
        /\ Len(reqs[c].predictions) = 1
        /\ reqs[c].resp.status = 400
        /\ DOMAIN reqs[c].resp.body = {"detail"}

\* C8: the artifact is loaded once, before any route exists; a failed load
\* ends the start-up with no route; a request is only ever served with a
\* loaded model.
C8_ModelLoadedBeforeServing ==
    /\ loads <= 1
    /\ routes # {} => (loads = 1 /\ model \in Artifacts)
    /\ phase = "aborted" => (routes = {} /\ \A c \in Clients : reqs[c].pc = "idle")
    /\ \A c \in Clients :
          reqs[c].pc # "idle" => (phase = "serving" /\ loads = 1 /\ model \in Artifacts)

C8_Witness ==
    /\ loads = 1
    /\ \E c \in Done("predict") : reqs[c].resp.status = 200

\* what the encoder puts at the position of the field named f
FieldCode(r, f) ==
    IF f \in NumFields THEN r[f]
    ELSE get(Table(f), lower(r[f]), 0)

\* C9: /model-info answers a features list of 12 names in the order of the
\* encoder's vector, and the same payload whatever the model and whatever
\* was handled before.
C9_ModelInfoOrder ==
    \A c \in Done("info") :
        /\ reqs[c].resp.status = 200
        /\ Len(reqs[c].resp.body.features) = 12
        /\ \A d \in Encoded :
              \A i \in 1..12 :
                  reqs[d].features[1][i] = FieldCode(Rec(d), reqs[c].resp.body.features[i])
        /\ \A d \in Done("info") : reqs[d].resp = reqs[c].resp
        /\ reqs[c].resp.body.model_type = "Linear Regression"
        /\ reqs[c].resp.body.problem_type = "regression"

C9_Witness ==
    \E c \in Done("info") :
        /\ model = NotAnEstimator
        /\ \E d \in Encoded : Rec(d) = R2

\* the response to a request handled on its own
RECURSIVE BatchAlone(_, _, _)
BatchAlone(m, items, predictions) ==
    IF items = <<>> THEN JSONResponse(200, [predictions |-> predictions])
    ELSE LET out == Call(m, Head(items).rec)
         IN  IF out.ok
             THEN BatchAlone(m, Tail(items), Append(predictions, PredictionOutput(out.value[1])))
             ELSE HTTPException(400, out.exc)

Alone(m, kind, items) ==
    IF ~Valid(items) THEN RequestValidationError(items)
    ELSE CASE kind = "health" ->
                JSONResponse(200, [status |-> "healthy",
                                   message |-> "House Price Prediction API is running"])
           [] kind = "info" -> JSONResponse(200, model_info_payload)
           [] kind = "predict" ->
                LET out == Call(m, items[1].rec)
                IN  IF out.ok THEN JSONResponse(200, PredictionOutput(out.value[1]))
                    ELSE HTTPException(400, out.exc)
           [] kind = "batch" -> BatchAlone(m, items, <<>>)

====
